---- MODULE Spec2Model ----
(***************************************************************************)
(* Model of app.py, the "Quantum AI vs Classical AI" animation script.     *)
(*                                                                         *)
(* One execution of the script is a run: the settings widgets are read,    *)
(* the frame loop appends one point per frame to the three series,         *)
(* redraws the chart and fires the one-shot breakthrough, and the final    *)
(* metrics are derived after the loop.  The framework re-executes the      *)
(* script from the top when the restart button is pressed or a widget      *)
(* changes.  The only other thread is the daemon thread play_sound starts. *)
(*                                                                         *)
(* Numbers.  times are kept in milliseconds (t = i * duration / frames is  *)
(* a multiple of 1/5 s).  classical is floor(i * max_candidates / frames): *)
(* IEEE division and multiplication are correctly rounded, and for the     *)
(* slider positions explored here int(i * (max_candidates / frames)) is    *)
(* that floor at every frame (at other positions the product can fall just *)
(* below an integer and truncate one lower).                               *)
(* quantum is int(2 ** (i * log2(max_candidates) / frames)), i.e. the      *)
(* floor of max_candidates^(i/frames); it is computed here exactly, with   *)
(* multi-digit integers, as the largest k with k^frames <=                 *)
(* max_candidates^i.  Where that power is exactly an integer (and i > 0)   *)
(* the double-precision result may land on the integer or just below it,   *)
(* so int() gives k or k - 1; which one is a property of the build's       *)
(* log2/pow.  The variable pow2 holds the values the build computes; it is *)
(* chosen once and never changes.                                          *)
(***************************************************************************)
EXTENDS Integers, Sequences, FiniteSets, TLC

(* ---------------- bounds of the model ---------------- *)

\* number of script executions (page load, restarts, widget changes) explored
MaxRuns == 2

(* ---------------- settings widgets (app.py 67-71) ---------------- *)

FramesPerSecond == 5
MinDuration == 5
MaxDuration == 30
DefaultDuration == 10
MinCandidates == 100
MaxCandidates == 10000
DefaultCandidates == 3000

\* the (duration, max_candidates) slider positions explored: the defaults,
\* both sliders at their minimum, and the longest run with the fewest
\* candidates (the only corner where frames exceeds max_candidates)
Workloads ==
    { <<DefaultDuration, DefaultCandidates>>,
      <<MinDuration, MinCandidates>>,
      <<MaxDuration, MinCandidates>> }

\* the SMILES text box: the default text, a molecule that is not in the name
\* table, and a text that is not a molecule
Aspirin == "CC(=O)OC1=CC=CC=C1C(=O)O"
Ethanol == "CCO"
NotAMolecule == "not-a-molecule"
SmilesInputs == {Aspirin, Ethanol, NotAMolecule}

Configs ==
    { [duration |-> w[1], max_candidates |-> w[2], smiles |-> s,
       show_molecule |-> sm, log_scale |-> ls] :
         w \in Workloads, s \in SmilesInputs, sm \in BOOLEAN, ls \in BOOLEAN }

DefaultConfig ==
    [duration |-> DefaultDuration, max_candidates |-> DefaultCandidates,
     smiles |-> Aspirin, show_molecule |-> TRUE, log_scale |-> FALSE]

(* ---------------- exact integer powers ---------------- *)

\* little-endian digits in this base; a digit times a candidate count fits
Base == 100000

RECURSIVE MulSmall(_, _, _)
MulSmall(x, k, carry) ==
    IF x = <<>>
    THEN IF carry = 0 THEN <<>>
         ELSE <<carry % Base>> \o MulSmall(<<>>, k, carry \div Base)
    ELSE LET p == Head(x) * k + carry
         IN  <<p % Base>> \o MulSmall(Tail(x), k, p \div Base)

\* x * k^n
RECURSIVE TimesPow(_, _, _)
TimesPow(x, k, n) ==
    IF n = 0 THEN x
    ELSE IF n = 1 THEN MulSmall(x, k, 0)
    ELSE LET half == TimesPow(x, k, n \div 2)
         IN  IF Len(half) = 0 THEN <<>>
             ELSE TimesPow(half, k, n - (n \div 2))

BigPow(k, n) == TimesPow(<<1>>, k, n)

RECURSIVE CmpFrom(_, _, _)
CmpFrom(x, y, j) ==
    IF j = 0 THEN 0
    ELSE IF x[j] < y[j] THEN -1
    ELSE IF x[j] > y[j] THEN 1
    ELSE CmpFrom(x, y, j - 1)

BigCmp(x, y) ==
    IF Len(x) < Len(y) THEN -1
    ELSE IF Len(x) > Len(y) THEN 1
    ELSE CmpFrom(x, y, Len(x))

\* the largest k in lo..hi with k^n <= target
RECURSIVE RootSearch(_, _, _, _)
RootSearch(lo, hi, n, target) ==
    IF lo = hi THEN lo
    ELSE LET mid == (lo + hi + 1) \div 2
         IN  IF BigCmp(BigPow(mid, n), target) <= 0
             THEN RootSearch(mid, hi, n, target)
             ELSE RootSearch(lo, mid - 1, n, target)

RECURSIVE GCD(_, _)
GCD(a, b) == IF b = 0 THEN a ELSE GCD(b, a % b)

\* floor(m^(i/n)) for m >= 1 and n >= 1, and whether m^(i/n) is exactly that
\* integer; i/n is first brought to lowest terms a/b
PowFloor(m, i, n) ==
    LET g      == GCD(i, n)
        a      == i \div g
        b      == n \div g
        target == BigPow(m, a)
        k      == RootSearch(1, m, b, target)
    IN  [floor |-> k, exact |-> BigCmp(BigPow(k, b), target) = 0]

Min(a, b) == IF a <= b THEN a ELSE b

\* round(a / b) to the nearest integer, b > 0
RoundDiv(a, b) == (2 * a + b) \div (2 * b)

(* ---------------- per-frame formulas (app.py 78-93) ---------------- *)

Frames(duration) == duration * FramesPerSecond

\* floor and exactness of max_candidates^(i/frames) for every explored
\* workload and every i up to frames, keyed by <<max_candidates, frames>>
PowFloors ==
    [k \in {<<w[2], Frames(w[1])>> : w \in Workloads} |->
        ([i \in 0..k[2] |-> PowFloor(k[1], i, k[2])] @@ <<>>)] @@ <<>>

\* int(2 ** (i * np.log2(max_candidates) / frames)) as a build computes it:
\* 2 ** 0.0 is exactly 1.0; an exact integer power may come out just below
PowTruncated(floors, landsOnInteger) ==
    [k \in DOMAIN floors |->
        [i \in DOMAIN floors[k] |->
            IF floors[k][i].exact /\ i > 0 /\ ~landsOnInteger
            THEN floors[k][i].floor - 1
            ELSE floors[k][i].floor]]

\* (variant: the modulo taken for the quotient)
ClassicalCountModulo(i, max_candidates, frames) == (i * max_candidates) % frames

\* (variant: the frame counted from 1)
ClassicalCountFromOne(i, max_candidates, frames) ==
    ((i + 1) * max_candidates) \div frames

\* (variant: the exponent taken one frame ahead)
QuantumCountAhead(i, max_candidates, frames, pow) ==
    Min(pow[<<max_candidates, frames>>][i + 1], max_candidates)

\* (variant: the classical count left out of the comparison)
BreakthroughConditionNoClassical(q, c) == q > 3

\* t = i * (duration / frames), in milliseconds
FrameTime(i, duration, frames) == (i * duration * 1000) \div frames

\* c = int(i * (max_candidates / frames))
ClassicalCount(i, max_candidates, frames) == (i * max_candidates) \div frames

\* q = min(int(2 ** (i * np.log2(max_candidates) / frames)), max_candidates)
QuantumCount(i, max_candidates, frames, pow) ==
    Min(pow[<<max_candidates, frames>>][i], max_candidates)

\* q > c * 3
BreakthroughCondition(q, c) == q > c * 3

(* ---------------- molecule helpers (app.py 29-53) ---------------- *)

NoMol == "None"

\* Chem.MolFromSmiles: the molecule, or None for text that does not parse
MolFromSmiles(smiles) == IF smiles = NotAMolecule THEN NoMol ELSE smiles

\* get_molecule_img_dark: DrawMolecule(None) raises, nothing catches it
MoleculeImageRaises(smiles) == MolFromSmiles(smiles) = NoMol

\* get_scientific_name: a one-entry table with a default (the inputs
\* explored carry no surrounding blanks, so strip() returns them unchanged)
UnknownCompound == "Unknown Compound"
GetScientificName(smiles) ==
    IF smiles = Aspirin THEN "Acetylsalicylic acid (Aspirin)"
    ELSE UnknownCompound

\* get_molecular_properties: the descriptors of None raise as well
MolecularPropertiesRaise(smiles) == MolFromSmiles(smiles) = NoMol

(* ---------------- state ---------------- *)

VARIABLES
    cfg,                \* the widget values read by this run (67-71)
    pow2,               \* int(2 ** (i * log2(m) / n)) on this build (91)
    run,                \* number of script executions so far
    phase,              \* "Running", "LoopDone", "Completed", "Aborted"
    i,                  \* index of the next frame of range(frames)
    times, classical, quantum,      \* the three series (79)
    quantum_triggered,  \* the breakthrough flag (80)
    chart,              \* what the last graph_area.pyplot call drew
    notices,            \* breakthrough banners written by this run (118)
    sounds,             \* play_sound calls made by this run (117)
    images,             \* captions of the images shown by this run (120)
    firedAt,            \* frame whose breakthrough branch was entered, or -1
    audio,              \* state of every daemon thread ever started (26)
    metrics,            \* the final metrics (126-131), or NoMetrics
    fault,              \* the exception that ended this run, or "none"
    prev                \* the series of the run before this one, when that run
                        \* finished its loop under the same configuration

vars == <<cfg, pow2, run, phase, i, times, classical, quantum,
          quantum_triggered, chart, notices, sounds, images, firedAt,
          audio, metrics, fault, prev>>

NoChart == [points |-> 0, log |-> FALSE, ymin |-> 0, ymax |-> 0]
NoMetrics == [q_total |-> 0, c_total |-> 0, speedup |-> 0,
              time_per_molecule_q |-> 0, time_per_molecule_c |-> 0]
NoPrev == [known |-> FALSE, times |-> <<>>, classical |-> <<>>,
           quantum |-> <<>>, firedAt |-> -1]

frames == Frames(cfg.duration)

\* (variant: the lists of the earlier execution kept)
InitialSeriesKept(old) == old

\* times, classical, quantum = [], [], [] (79)
InitialSeries(old) == <<>>

\* the state lines 78-83 leave behind for configuration c
FreshRun(c) ==
    /\ cfg' = c
    /\ phase' = IF Frames(c.duration) = 0 THEN "LoopDone" ELSE "Running"
    /\ i' = 0
    /\ times' = InitialSeries(times)
    /\ classical' = InitialSeries(classical)
    /\ quantum' = InitialSeries(quantum)
    /\ quantum_triggered' = FALSE
    /\ chart' = NoChart
    /\ notices' = 0
    /\ sounds' = 0
    /\ images' = <<>>
    /\ firedAt' = -1
    /\ metrics' = NoMetrics
    /\ fault' = "none"

Init ==
    /\ cfg = DefaultConfig
    /\ LET floors == PowFloors
       IN  pow2 \in {PowTruncated(floors, lands) : lands \in BOOLEAN}
    /\ run = 1
    /\ phase = "Running"
    /\ i = 0
    /\ times = <<>>
    /\ classical = <<>>
    /\ quantum = <<>>
    /\ quantum_triggered = FALSE
    /\ chart = NoChart
    /\ notices = 0
    /\ sounds = 0
    /\ images = <<>>
    /\ firedAt = -1
    /\ audio = <<>>
    /\ metrics = NoMetrics
    /\ fault = "none"
    /\ prev = NoPrev

(* ---------------- the frame loop (app.py 85-123) ---------------- *)

\* (variant: the point appended twice)
AppendPointTwice(series, v) == Append(Append(series, v), v)

\* (variant: the flag not consulted)
BreakthroughFiresUnlatched(flag, q, c) == BreakthroughCondition(q, c)

\* .append(v) (88, 92, 93)
AppendPoint(series, v) == Append(series, v)

\* if not quantum_triggered and q > c * 3 (116)
BreakthroughFires(flag, q, c) == ~flag /\ BreakthroughCondition(q, c)

\* one iteration of the loop body, lines 86-123.  elapsed (86) is computed
\* from the clock and never read, so the clock is not part of the state; the
\* 50 ms sleep (123) is where the other actions interleave
Step ==
    /\ phase = "Running"
    /\ i < frames
    /\ LET t == FrameTime(i, cfg.duration, frames)
           c == ClassicalCount(i, cfg.max_candidates, frames)
           q == QuantumCount(i, cfg.max_candidates, frames, pow2)
           fires == BreakthroughFires(quantum_triggered, q, c)
           raises == fires /\ cfg.show_molecule /\ MoleculeImageRaises(cfg.smiles)
       IN  /\ times' = AppendPoint(times, t)
           /\ classical' = AppendPoint(classical, c)
           /\ quantum' = AppendPoint(quantum, q)
           /\ chart' = [points |-> Len(times) + 1, log |-> cfg.log_scale,
                        ymin |-> 1, ymax |-> cfg.max_candidates]
           /\ sounds' = IF fires THEN sounds + 1 ELSE sounds
           /\ audio' = IF fires THEN Append(audio, "playing") ELSE audio
           /\ notices' = IF fires THEN notices + 1 ELSE notices
           /\ firedAt' = IF fires THEN i ELSE firedAt
           /\ images' = IF fires /\ cfg.show_molecule /\ ~raises
                        THEN Append(images, GetScientificName(cfg.smiles))
                        ELSE images
           /\ quantum_triggered' = IF fires /\ ~raises THEN TRUE
                                   ELSE quantum_triggered
           /\ fault' = IF raises THEN "DrawMolecule(None)" ELSE fault
           /\ i' = IF raises THEN i ELSE i + 1
           /\ phase' = IF raises THEN "Aborted"
                       ELSE IF i + 1 = frames THEN "LoopDone" ELSE "Running"
    /\ UNCHANGED <<cfg, pow2, run, metrics, prev>>

(* ---------------- final metrics (app.py 126-131) ---------------- *)

Finalize ==
    /\ phase = "LoopDone"
    /\ IF Len(quantum) = 0
       THEN /\ fault' = "IndexError"
            /\ phase' = "Aborted"
            /\ metrics' = metrics
       ELSE LET q_total == quantum[Len(quantum)]
                c_total == classical[Len(classical)]
            IN  IF c_total = 0 \/ q_total = 0
                THEN /\ fault' = "ZeroDivisionError"
                     /\ phase' = "Aborted"
                     /\ metrics' = metrics
                ELSE IF MolecularPropertiesRaise(cfg.smiles)
                THEN /\ fault' = "MolWt(None)"
                     /\ phase' = "Aborted"
                     /\ metrics' = metrics
                ELSE /\ fault' = fault
                     /\ phase' = "Completed"
                     /\ metrics' =
                          [q_total |-> q_total, c_total |-> c_total,
                           speedup |-> RoundDiv(100 * q_total, c_total),
                           time_per_molecule_q |->
                               RoundDiv(100000 * cfg.duration, q_total),
                           time_per_molecule_c |->
                               RoundDiv(100000 * cfg.duration, c_total)]
    /\ UNCHANGED <<cfg, pow2, run, i, times, classical, quantum,
                   quantum_triggered, chart, notices, sounds, images,
                   firedAt, audio, prev>>

(* ---------------- the audio thread (app.py 14-26) ---------------- *)

\* playsound(path) returns
AudioPlayed(k) ==
    /\ audio[k] = "playing"
    /\ audio' = [audio EXCEPT ![k] = "done"]

\* the import or playsound raises: the handler runs the platform player
AudioFallback(k) ==
    /\ audio[k] = "playing"
    /\ audio' = [audio EXCEPT ![k] = "fallback"]

\* os.system returns, whatever the player's exit status
AudioFallbackDone(k) ==
    /\ audio[k] = "fallback"
    /\ audio' = [audio EXCEPT ![k] = "done"]

AudioStep ==
    /\ \E k \in 1..Len(audio) :
          AudioPlayed(k) \/ AudioFallback(k) \/ AudioFallbackDone(k)
    /\ UNCHANGED <<cfg, pow2, run, phase, i, times, classical, quantum,
                   quantum_triggered, chart, notices, sounds, images,
                   firedAt, metrics, fault, prev>>

(* ---------------- re-execution of the script (app.py 64-71) ---------------- *)

LoopFinished == i = frames

\* the restart button: the script runs again with the same widget values
Restart ==
    /\ run < MaxRuns
    /\ run' = run + 1
    /\ FreshRun(cfg)
    /\ prev' = IF LoopFinished
               THEN [known |-> TRUE, times |-> times, classical |-> classical,
                     quantum |-> quantum, firedAt |-> firedAt]
               ELSE NoPrev
    /\ UNCHANGED <<pow2, audio>>

\* a settings widget changes: the script runs again with the new values
Reconfigure ==
    /\ run < MaxRuns
    /\ run' = run + 1
    /\ \E c \in Configs \ {cfg} : FreshRun(c)
    /\ prev' = NoPrev
    /\ UNCHANGED <<pow2, audio>>

Next == Step \/ Finalize \/ AudioStep \/ Restart \/ Reconfigure

Spec == Init /\ [][Next]_vars

\* the loop body and the code after it run whenever they can
FairSpec == Spec /\ WF_vars(Step) /\ WF_vars(Finalize)

(* ---------------- properties ---------------- *)

TypeOK ==
    /\ cfg \in Configs
    /\ cfg.duration \in MinDuration..MaxDuration
    /\ cfg.max_candidates \in MinCandidates..MaxCandidates
    /\ run \in 1..MaxRuns
    /\ phase \in {"Running", "LoopDone", "Completed", "Aborted"}
    /\ i \in 0..frames
    /\ quantum_triggered \in BOOLEAN
    /\ fault \in {"none", "DrawMolecule(None)", "IndexError",
                  "ZeroDivisionError", "MolWt(None)"}

Last(series) == series[Len(series)]

\* the breakthrough condition at frame j of the series built so far
ConditionAt(j) == BreakthroughCondition(quantum[j + 1], classical[j + 1])

\* C1: the three series always have the same length; while the loop runs
\* they hold one element per processed frame (i elements before frame i,
\* i + 1 after it), and once the loop has finished they hold
\* frame_count = duration * 5 elements.
C1_SeriesLengths ==
    /\ Len(times) = Len(classical)
    /\ Len(classical) = Len(quantum)
    /\ Len(times) = IF fault = "DrawMolecule(None)" THEN i + 1 ELSE i
    /\ LoopFinished => Len(times) = cfg.duration * FramesPerSecond

C1_Witness ==
    /\ phase = "Completed"
    /\ cfg.duration = MaxDuration
    /\ Len(times) = MaxDuration * FramesPerSecond
    /\ Len(quantum) = Len(times)

\* C2: within one execution the flag never goes back from true to false, and
\* the banner, the play_sound call and the image happen at most once, at the
\* first frame at which quantum_count > 3 * classical_count holds.
C2_OneShot ==
    /\ [](/\ notices <= 1
          /\ sounds <= 1
          /\ Len(images) <= 1
          /\ notices = sounds
          /\ (firedAt = -1) = (sounds = 0)
          /\ firedAt # -1 =>
                /\ firedAt < Len(quantum)
                /\ ConditionAt(firedAt)
                /\ \A j \in 0..(firedAt - 1) : ~ConditionAt(j)
          /\ quantum_triggered =>
                /\ firedAt # -1
                /\ Len(images) = IF cfg.show_molecule THEN 1 ELSE 0)
    /\ [][run' = run /\ quantum_triggered => quantum_triggered']_vars

\* the condition holds again at frame 1 and nothing fires a second time
C2_Witness ==
    /\ quantum_triggered
    /\ i >= 2
    /\ ConditionAt(1)
    /\ firedAt = 0
    /\ sounds = 1
    /\ notices = 1

\* C3 as stated: after a completed run the last element of quantum equals
\* max_candidates.
C3_LastEqualsMax ==
    LoopFinished /\ Len(quantum) > 0 => Last(quantum) = cfg.max_candidates

\* C3 as amended: after a completed run the last element of quantum is
\* strictly below max_candidates (83 for max_candidates = 100, duration = 5,
\* and 2556 for the defaults): the last frame processed is frame_count - 1.
C3_LastBelowMax ==
    LoopFinished =>
        /\ Len(quantum) = frames
        /\ Last(quantum) < cfg.max_candidates
        /\ (cfg.max_candidates = 100 /\ cfg.duration = 5) => quantum[25] = 83
        /\ (cfg.max_candidates = 3000 /\ cfg.duration = 10) => quantum[50] = 2556

C3_Witness ==
    /\ phase = "Completed"
    /\ cfg.max_candidates = 100
    /\ cfg.duration = 5
    /\ Len(quantum) = 25
    /\ quantum[25] = 83

\* the state right after frame 25 of a run with duration 10, max 3000
AfterFrame25 ==
    /\ cfg.duration = 10
    /\ cfg.max_candidates = 3000
    /\ phase = "Running"
    /\ i = 26

\* C4 as stated: with duration 10 and max_candidates 3000, at frame 25
\* classical is 1500, quantum is 54, and the flag is still false.
C4_FlagStillFalse ==
    AfterFrame25 =>
        /\ classical[26] = 1500
        /\ quantum[26] = 54
        /\ ~quantum_triggered

\* C4 as amended: with duration 10 and max_candidates 3000, at frame 25
\* classical is 1500 and quantum is 54, so the condition is false at that
\* frame, but the flag is already true: it was set at frame 0.
C4_FlagAlreadyTrue ==
    AfterFrame25 =>
        /\ frames = 50
        /\ classical[26] = 1500
        /\ quantum[26] = 54
        /\ ~ConditionAt(25)
        /\ quantum_triggered
        /\ firedAt = 0

C4_Witness == AfterFrame25 /\ classical[26] = 1500 /\ quantum[26] = 54

\* C6 as stated: with show_molecule set and a SMILES text the toolkit cannot
\* parse, the name lookup gives "Unknown Compound", no image is shown and
\* the failed render does not end the run before frame_count is reached.
C6_RenderFailureNotFatal ==
    (cfg.show_molecule /\ MolFromSmiles(cfg.smiles) = NoMol) =>
        /\ GetScientificName(cfg.smiles) = UnknownCompound
        /\ images = <<>>
        /\ ~(phase = "Aborted" /\ i < frames)

\* C7 as stated: the audio threads never change what the loop works on, the
\* loop can take its next frame whatever the threads are doing, frames are
\* taken one by one in increasing order, and every run that is not
\* restarted reaches frame_count.
C7_LoopAlwaysCompletes ==
    /\ [][AudioStep => UNCHANGED <<phase, i, times, classical, quantum,
                                   quantum_triggered, fault>>]_vars
    /\ [][run' = run => (i' = i \/ i' = i + 1)]_vars
    /\ [](phase = "Running" => ENABLED Step)
    /\ [](phase = "Running" => <>LoopFinished)

\* what the sliders make of the division in the final metrics: the last
\* classical and quantum counts are positive and the loop runs at least once,
\* so lines 126-130 never index an empty list or divide by zero
MetricsOperandsPositive ==
    /\ frames >= MinDuration * FramesPerSecond
    /\ LoopFinished => (Last(classical) > 0 /\ Last(quantum) > 0)
    /\ fault \notin {"ZeroDivisionError", "IndexError"}

\* what does hold of the audio threads: they leave the loop's variables
\* alone, the loop never waits for them, and the last execution reaches
\* frame_count unless the image of an unparsable SMILES text is requested
AudioNeverReachesLoop ==
    /\ [][AudioStep => UNCHANGED <<phase, i, times, classical, quantum,
                                   quantum_triggered, fault>>]_vars
    /\ [][run' = run => (i' = i \/ i' = i + 1)]_vars
    /\ [](phase = "Running" => ENABLED Step)
    /\ []((/\ phase = "Running"
           /\ run = MaxRuns
           /\ ~(cfg.show_molecule /\ MolFromSmiles(cfg.smiles) = NoMol))
             => <>LoopFinished)

\* C8: an execution starts with empty series and a false flag, and when the
\* execution before it finished its loop under the same configuration, it
\* rebuilds the same series point by point and fires the breakthrough at
\* the same frame.
C8_RestartIdempotent ==
    /\ (i = 0 /\ fault = "none") =>
          /\ times = <<>>
          /\ classical = <<>>
          /\ quantum = <<>>
          /\ ~quantum_triggered
          /\ sounds = 0
    /\ prev.known =>
          /\ Len(times) <= Len(prev.times)
          /\ times = SubSeq(prev.times, 1, Len(times))
          /\ classical = SubSeq(prev.classical, 1, Len(classical))
          /\ quantum = SubSeq(prev.quantum, 1, Len(quantum))
          /\ firedAt # -1 => firedAt = prev.firedAt
          /\ LoopFinished =>
                /\ times = prev.times
                /\ classical = prev.classical
                /\ quantum = prev.quantum
                /\ firedAt = prev.firedAt

C8_Witness ==
    /\ prev.known
    /\ run = 2
    /\ phase = "Completed"
    /\ Len(times) = frames
    /\ quantum = prev.quantum
    /\ classical = prev.classical

\* C9: classical and quantum are non-decreasing: every element is at most
\* every later one (each new last element is compared with all before it).
C9_NonDecreasing ==
    \A j \in 1..Len(classical) :
        /\ classical[j] <= Last(classical)
        /\ quantum[j] <= Last(quantum)

\* a long run whose quantum series has risen, with the plateau around the
\* frame where max_candidates^(i/frames) is exactly 10
C9_Witness ==
    /\ cfg.max_candidates = 100
    /\ cfg.duration = 30
    /\ LoopFinished
    /\ quantum[75] = 9
    /\ quantum[76] \in {9, 10}
    /\ quantum[77] = 10
    /\ Last(quantum) = 96
    /\ Last(classical) = 99

\* C10: the breakthrough fires at frame 0, where classical is 0 and quantum
\* is 1; the flag is true once frame 0 has been completed, and no later
\* frame decides whether or when it fires.
C10_FiresAtFrameZero ==
    /\ Len(classical) >= 1 =>
          /\ classical[1] = 0
          /\ quantum[1] = 1
          /\ ConditionAt(0)
          /\ firedAt = 0
          /\ sounds = 1
          /\ notices = 1
    /\ (i >= 1 /\ cfg.max_candidates >= 1) => quantum_triggered

C10_Witness ==
    /\ phase = "Completed"
    /\ cfg.duration = 30
    /\ cfg.max_candidates = 100
    /\ quantum_triggered
    /\ firedAt = 0
    /\ ConditionAt(1)

====
